---------------------------- MODULE Spec2Model ----------------------------
(***************************************************************************)
(* Model of the boletins-streamlit repository:                             *)
(*   src/consultaNotas.py    - report-card consultation view               *)
(*   src/lancamentoNotas.py  - grade-entry view                            *)
(*                                                                         *)
(* Text is a sequence of one-character strings.  A Python float is an      *)
(* exact decimal [m |-> mantissa, e |-> number of fraction digits]; with   *)
(* the text lengths used here (fewer than 15 significant digits) distinct  *)
(* decimals are distinct floats and repr() prints the decimal's own        *)
(* digits.  Scores inside the report card and the entry form are integers  *)
(* in hundredths (8.0 is 800); the scores used are multiples of 0.5, for   *)
(* which the float sums and halves of the code are exact.                  *)
(***************************************************************************)
EXTENDS Integers, Sequences, FiniteSets, TLC

VARIABLES
    \* ---- clean_nota_value harness
    module,      \* which file's clean_nota_value is called
    value,       \* the argument: a missing cell, a text or a float
    ret,         \* what the call did: nothing yet, a float, or ValueError
    ret2,        \* what the call on the returned float did
    pcN,         \* "idle" | "input" | "called" | "recalled"
    \* ---- consultaNotas.py: display_boletim
    resultado,               \* the filtered record set, in sheet row order
    medias,                  \* dict of calculate_media, in insertion order
    boletim,                 \* the report table handed to st.dataframe
    recuperacao_needed,      \* list of check_recuperacao
    recuperacao_resultados,  \* list of check_recuperacao_final
    pcB,                     \* "idle" | "loaded" | "displayed"
    \* ---- lancamentoNotas.py: the grade-entry view
    sheet,            \* worksheet Notas_Tabela: the rows below the header
    cache,            \* st.cache_data entry of load_data(WORKSHEET_NOTAS)
    df,               \* st.session_state["df"]: the session's snapshot
    cache_version,    \* st.session_state["cache_version"]
    prof_autenticado, \* st.session_state["prof_autenticado"]
    nome_prof,        \* st.session_state["nome_prof"]
    mat_prof,         \* st.session_state["mat_prof"], as typed
    form,             \* widget values of the last submitted entry form
    run,              \* what the last page run did and reported
    today,            \* datetime.today().date(), as a day number
    pcL,              \* "idle" | "session"
    \* ---- consultaNotas.py: the consultation view
    planilha,         \* worksheet Notas_Tabela as the consultation view reads it
    consulta,         \* widget values: serie, nome, bimestre, matricula
    tela,             \* what the last page run put on the screen
    consultado,       \* "consultado" in st.session_state
    pcC               \* "idle" | "page"

varsN == <<module, value, ret, ret2, pcN>>
varsB == <<resultado, medias, boletim, recuperacao_needed, recuperacao_resultados, pcB>>
varsL == <<sheet, cache, df, cache_version, prof_autenticado, nome_prof, mat_prof,
           form, run, today, pcL>>
varsC == <<planilha, consulta, tela, consultado, pcC>>
vars  == <<varsN, varsB, varsL, varsC>>

-----------------------------------------------------------------------------
(* Bounds *)

MaxLen == 4          \* longest text over Alphabet
MaxDigitsLen == 6    \* longest text over DigitAlphabet
MaxRows == 3         \* most rows of a filtered record set
MaxSheetRows == 5    \* most rows of the worksheet
MaxVersion == 2      \* largest cache_version

-----------------------------------------------------------------------------
(* Text helpers (Python str methods and re) *)

Digits == {"0", "1", "2", "3", "4", "5", "6", "7", "8", "9"}

DigitVal(c) ==
    CASE c = "0" -> 0 [] c = "1" -> 1 [] c = "2" -> 2 [] c = "3" -> 3
      [] c = "4" -> 4 [] c = "5" -> 5 [] c = "6" -> 6 [] c = "7" -> 7
      [] c = "8" -> 8 [] c = "9" -> 9

DigitChar(n) ==
    CASE n = 0 -> "0" [] n = 1 -> "1" [] n = 2 -> "2" [] n = 3 -> "3"
      [] n = 4 -> "4" [] n = 5 -> "5" [] n = 6 -> "6" [] n = 7 -> "7"
      [] n = 8 -> "8" [] n = 9 -> "9"

RECURSIVE lstrip(_)
lstrip(s) == IF s = <<>> THEN s
             ELSE IF Head(s) = " " THEN lstrip(Tail(s)) ELSE s

RECURSIVE rstrip(_)
rstrip(s) == IF s = <<>> THEN s
             ELSE IF s[Len(s)] = " " THEN rstrip(SubSeq(s, 1, Len(s) - 1)) ELSE s

\* str.strip()
strip(s) == rstrip(lstrip(s))

\* str.replace(old, new) for one-character old and new
RECURSIVE replace(_, _, _)
replace(s, old, new) ==
    IF s = <<>> THEN <<>>
    ELSE <<(IF Head(s) = old THEN new ELSE Head(s))>> \o replace(Tail(s), old, new)

\* re.match(r'^\d{1,2}/\d{1,2}$', s)
match_date(s) ==
    \E p \in 1..Len(s) :
        /\ s[p] = "/"
        /\ (p - 1) \in 1..2
        /\ (Len(s) - p) \in 1..2
        /\ \A i \in 1..Len(s) : i # p => s[i] \in Digits

\* str.split(sep)
RECURSIVE split(_, _)
split(s, sep) ==
    IF \A i \in 1..Len(s) : s[i] # sep THEN <<s>>
    ELSE LET p == CHOOSE i \in 1..Len(s) :
                      s[i] = sep /\ \A j \in 1..(i - 1) : s[j] # sep
         IN  <<SubSeq(s, 1, p - 1)>> \o split(SubSeq(s, p + 1, Len(s)), sep)

\* ''.join(parts)
RECURSIVE join(_)
join(parts) == IF parts = <<>> THEN <<>> ELSE Head(parts) \o join(Tail(parts))

\* re.sub(r'[^\d.]', '', s)
sub_non_numeric(s) == SelectSeq(s, LAMBDA c : c \in Digits \cup {"."})

-----------------------------------------------------------------------------
(* Floats *)

RECURSIVE Norm(_, _)
Norm(m, e) == IF e > 0 /\ m % 10 = 0 THEN Norm(m \div 10, e - 1)
              ELSE [m |-> m, e |-> e]

Zero == Norm(0, 0)

RECURSIVE int_of(_)
int_of(ds) == IF ds = <<>> THEN 0
              ELSE int_of(SubSeq(ds, 1, Len(ds) - 1)) * 10 + DigitVal(ds[Len(ds)])

\* what float(s) accepts among the texts the cleaning can leave: digits with at
\* most one period and at least one digit
float_parses(s) ==
    /\ \A i \in 1..Len(s) : s[i] \in Digits \cup {"."}
    /\ Len(split(s, ".")) <= 2
    /\ \E i \in 1..Len(s) : s[i] \in Digits

\* float(s) for a text float_parses accepts
float(s) ==
    LET parts == split(s, ".")
        fp    == IF Len(parts) > 1 THEN parts[2] ELSE <<>>
    IN  Norm(int_of(parts[1] \o fp), Len(fp))

RECURSIVE digits_of(_)
digits_of(n) == IF n < 10 THEN <<DigitChar(n)>>
                ELSE digits_of(n \div 10) \o <<DigitChar(n % 10)>>

RECURSIVE strip_zeros(_)
strip_zeros(ds) == IF Len(ds) > 1 /\ ds[Len(ds)] = "0"
                   THEN strip_zeros(SubSeq(ds, 1, Len(ds) - 1)) ELSE ds

zeros(n) == [i \in 1..n |-> "0"]

\* repr(x) of a float: fixed notation while -4 < decpt <= 16, where the value
\* is 0.d1d2.. * 10^decpt, and exponent notation outside that range
float_repr(x) ==
    IF x.m = 0 THEN <<"0", ".", "0">>
    ELSE LET all   == digits_of(x.m)
             decpt == Len(all) - x.e
             sig   == strip_zeros(all)
             n     == Len(sig)
             ex    == decpt - 1
             mag   == IF ex < 0 THEN 0 - ex ELSE ex
         IN  IF decpt <= 0 - 4 \/ decpt > 16
             THEN <<sig[1]>>
                  \o (IF n > 1 THEN <<".">> \o SubSeq(sig, 2, n) ELSE <<>>)
                  \o <<"e", (IF ex < 0 THEN "-" ELSE "+")>>
                  \o (IF mag < 10 THEN <<"0">> ELSE <<>>) \o digits_of(mag)
             ELSE IF decpt <= 0
             THEN <<"0", ".">> \o zeros(0 - decpt) \o sig
             ELSE IF decpt >= n
             THEN sig \o zeros(decpt - n) \o <<".", "0">>
             ELSE SubSeq(sig, 1, decpt) \o <<".">> \o SubSeq(sig, decpt + 1, n)

-----------------------------------------------------------------------------
(* Cell values and call outcomes *)

Missing    == [kind |-> "nan", text |-> <<>>, num |-> Zero]
Text(s)    == [kind |-> "str", text |-> s, num |-> Zero]
Number(x)  == [kind |-> "float", text |-> <<>>, num |-> x]

\* str(value)
str(v) == IF v.kind = "float" THEN float_repr(v.num) ELSE v.text

NotCalled  == [st |-> "none", num |-> Zero]
Returned(x) == [st |-> "returned", num |-> x]
ValueError == [st |-> "ValueError", num |-> Zero]

\* lines 46-57 of consultaNotas.py, 61-72 of lancamentoNotas.py: the text
\* handed to float()
cleaned_text(v) ==
    LET v1 == strip(str(v))
        v2 == replace(v1, ",", ".")
        v3 == IF match_date(v2)
              THEN LET parts == split(v2, "/") IN parts[1] \o <<".">> \o parts[2]
              ELSE v2
        v4 == sub_non_numeric(v3)
        parts == split(v4, ".")
    IN  IF Len(parts) > 2
        THEN parts[1] \o <<".">> \o join(Tail(parts))
        ELSE v4

\* consultaNotas.clean_nota_value: float() is not guarded
consulta_clean_nota_value(v) ==
    IF v.kind = "nan" THEN Returned(Zero)
    ELSE LET t == cleaned_text(v)
         IN  IF t = <<>> THEN Returned(Zero)
             ELSE IF float_parses(t) THEN Returned(float(t))
             ELSE ValueError

\* lancamentoNotas.clean_nota_value: ValueError of float() is caught
lancamento_clean_nota_value(v) ==
    IF v.kind = "nan" THEN Returned(Zero)
    ELSE LET t == cleaned_text(v)
         IN  IF t = <<>> THEN Returned(Zero)
             ELSE IF float_parses(t) THEN Returned(float(t))
             ELSE Returned(Zero)

clean_nota_value(mod, v) ==
    IF mod = "consultaNotas" THEN consulta_clean_nota_value(v)
    ELSE lancamento_clean_nota_value(v)

-----------------------------------------------------------------------------
(* Harness of clean_nota_value: bounded cell values, one call, one call on *)
(* the float it returned                                                   *)

Modules == {"consultaNotas", "lancamentoNotas"}

\* the report card is not in use
IdleB ==
    /\ resultado = <<>>
    /\ medias = <<>>
    /\ boletim = [columns |-> <<>>, index |-> <<>>, cell |-> <<>>]
    /\ recuperacao_needed = <<>>
    /\ recuperacao_resultados = <<>>
    /\ pcB = "idle"

NoForm == [serie |-> "", componente |-> "", bimestre |-> "", tipo |-> "",
           notas |-> <<>>, sobrescrever |-> FALSE]

NoRun == [kind |-> "none", erros |-> {}, atualizados |-> {}, registros |-> {}]

NoConsulta == [serie |-> "", nome |-> "", bimestre |-> "", matricula |-> <<>>]

\* the consultation view is not in use
IdleC ==
    /\ planilha = <<>>
    /\ consulta = NoConsulta
    /\ tela = "none"
    /\ consultado = FALSE
    /\ pcC = "idle"

\* the grade-entry view is not in use
IdleL ==
    /\ sheet = <<>>
    /\ cache = [valid |-> FALSE, data |-> <<>>]
    /\ df = <<>>
    /\ cache_version = 0
    /\ prof_autenticado = FALSE
    /\ nome_prof = ""
    /\ mat_prof = ""
    /\ form = NoForm
    /\ run = NoRun
    /\ today = 0
    /\ pcL = "idle"

\* clean_nota_value is not in use
IdleN ==
    /\ module = "consultaNotas"
    /\ value = Missing
    /\ ret = NotCalled
    /\ ret2 = NotCalled
    /\ pcN = "idle"

Alphabet == {"0", "1", "8", ",", ".", "/", " ", "a"}
DigitAlphabet == {"0", "1", "."}

TextsUpTo(A, n) == UNION {[1..k -> A] : k \in 0..n}

\* the score texts of the specification's examples
Examples == { <<"8", ",", "5">>, <<"8", "/", "5">>, <<"1", ".", "2", ".", "3">>,
              <<>>, <<"a", "b", "c">> }

ScoreTexts == TextsUpTo(Alphabet, MaxLen) \cup TextsUpTo(DigitAlphabet, MaxDigitsLen)
              \cup Examples

InitNota ==
    /\ module \in Modules
    /\ value \in {Missing} \cup {Text(s) : s \in ScoreTexts}
    /\ ret = NotCalled
    /\ ret2 = NotCalled
    /\ pcN = "input"
    /\ IdleB
    /\ IdleL
    /\ IdleC

\* df['Nota'].apply(clean_nota_value) on one cell
CallClean ==
    /\ pcN = "input"
    /\ ret' = clean_nota_value(module, value)
    /\ pcN' = "called"
    /\ UNCHANGED <<module, value, ret2>>
    /\ UNCHANGED <<varsB, varsL, varsC>>

\* clean_nota_value applied to the float a call returned
CallCleanAgain ==
    /\ pcN = "called"
    /\ ret.st = "returned"
    /\ ret2' = clean_nota_value(module, Number(ret.num))
    /\ pcN' = "recalled"
    /\ UNCHANGED <<module, value, ret>>
    /\ UNCHANGED <<varsB, varsL, varsC>>

NextNota == CallClean \/ CallCleanAgain

SpecNota == InitNota /\ [][NextNota]_vars

-----------------------------------------------------------------------------
(* The normalisation pipeline as the specification words it (section 4.1), *)
(* written over character positions instead of split and join              *)

IsBlank(s) == \A i \in 1..Len(s) : s[i] = " "

\* step 2: the text between the first and the last non-blank character, with
\* every comma read as a period
Trimmed(s) ==
    IF IsBlank(s) THEN <<>>
    ELSE LET lo == CHOOSE i \in 1..Len(s) :
                       s[i] # " " /\ \A j \in 1..(i - 1) : s[j] = " "
             hi == CHOOSE i \in 1..Len(s) :
                       s[i] # " " /\ \A j \in (i + 1)..Len(s) : s[j] = " "
         IN  [i \in 1..(hi - lo + 1) |->
                 IF s[lo + i - 1] = "," THEN "." ELSE s[lo + i - 1]]

\* step 3: the whole text is one or two digits, a slash, one or two digits
IsMiswrittenDecimal(s) ==
    /\ Len(s) \in 3..5
    /\ Cardinality({i \in 1..Len(s) : s[i] = "/"}) = 1
    /\ \A i \in 1..Len(s) : s[i] \in Digits \cup {"/"}
    /\ LET p == CHOOSE i \in 1..Len(s) : s[i] = "/"
       IN  p \in 2..3 /\ Len(s) - p \in 1..2

\* steps 3 to 6: the digits before the first period are the integer part, all
\* later digits the fraction; no digit at all gives 0.0
PipelineNumber(s) ==
    LET t    == IF IsMiswrittenDecimal(s)
                THEN [i \in 1..Len(s) |-> IF s[i] = "/" THEN "." ELSE s[i]]
                ELSE s
        dots == {i \in 1..Len(t) : t[i] = "."}
        cut  == IF dots = {} THEN Len(t) + 1
                ELSE CHOOSE i \in dots : \A j \in dots : i <= j
        ip   == SelectSeq(SubSeq(t, 1, cut - 1), LAMBDA c : c \in Digits)
        fp   == SelectSeq(SubSeq(t, cut + 1, Len(t)), LAMBDA c : c \in Digits)
    IN  IF ip \o fp = <<>> THEN Zero
        ELSE Norm(int_of(ip \o fp), Len(fp))

PipelineValue(v) == IF v.kind = "nan" THEN Zero ELSE PipelineNumber(Trimmed(v.text))

-----------------------------------------------------------------------------
(* Claims about clean_nota_value *)

\* C1: clean_nota_value, in both files, never raises to its caller: every
\* call returns a number.
C1_NeverRaises ==
    pcN \in {"called", "recalled"} => ret.st = "returned" /\ ret2.st # "ValueError"

\* lancamentoNotas.clean_nota_value alone never raises
LancamentoNeverRaises ==
    (module = "lancamentoNotas" /\ pcN \in {"called", "recalled"})
        => ret.st = "returned" /\ ret2.st # "ValueError"

\* the only cleaned text consultaNotas.clean_nota_value raises on is a lone period
ConsultaRaisesOnlyOnPeriod ==
    (module = "consultaNotas" /\ pcN = "called")
        => (ret = ValueError <=> cleaned_text(value) = <<".">>)

\* C2: for every score text of the bounded alphabet (and a missing cell)
\* clean_nota_value returns the value of the specified pipeline.
C2_PipelineValue ==
    pcN = "called" => ret = Returned(PipelineValue(value))

\* lancamentoNotas.clean_nota_value alone returns the pipeline's value
LancamentoPipelineValue ==
    (module = "lancamentoNotas" /\ pcN = "called")
        => ret = Returned(PipelineValue(value))

\* consultaNotas.clean_nota_value returns the pipeline's value whenever it returns
ConsultaPipelineValue ==
    (module = "consultaNotas" /\ pcN = "called" /\ ret.st = "returned")
        => ret = Returned(PipelineValue(value))

\* the five examples of the specification, in both files
ExamplesValue ==
    \A mod \in Modules :
        /\ clean_nota_value(mod, Text(<<"8", ",", "5">>)) = Returned(Norm(85, 1))
        /\ clean_nota_value(mod, Text(<<"8", "/", "5">>)) = Returned(Norm(85, 1))
        /\ clean_nota_value(mod, Text(<<"1", ".", "2", ".", "3">>)) = Returned(Norm(123, 2))
        /\ clean_nota_value(mod, Text(<<>>)) = Returned(Zero)
        /\ clean_nota_value(mod, Text(<<"a", "b", "c">>)) = Returned(Zero)

\* C3: normalisation is idempotent: clean_nota_value applied to the textual
\* form of the number it returned returns that number again.
C3_Idempotent ==
    pcN = "recalled" => ret2 = ret

\* idempotence holds where repr() stays in fixed notation (value 0 or >= 0.0001)
IdempotentInFixedNotation ==
    (pcN = "recalled" /\ (ret.num.m = 0 \/ Len(digits_of(ret.num.m)) - ret.num.e > 0 - 4))
        => ret2 = ret

-----------------------------------------------------------------------------
(* consultaNotas.py: the report card of one student and period             *)
(*                                                                         *)
(* A row of the record set is [comp, tipo, nota]: 'Componente Curricular', *)
(* 'Tipo de Avaliacao' and 'Nota' (in hundredths) after load_data.  The    *)
(* categories RECUPERAÇÃO and RECUPERAÇÃO FINAL are written without their  *)
(* diacritics.                                                             *)

Centi(n) == n * 100

\* subjects, in the lexicographic order pivot_table sorts its index by
Componentes == <<"CIENCIAS", "MATEMATICA">>

desired_order == <<"MENSAL", "BIMESTRAL", "MEDIA", "RECUPERACAO", "RECUPERACAO FINAL">>

Range(s) == {s[i] : i \in 1..Len(s)}

\* the scores tried for the rows of each category; a literal MEDIA row
\* carries a score no average of the other scores equals
NotasOf(tipo) ==
    CASE tipo \in {"MENSAL", "BIMESTRAL"} -> {0, Centi(6), Centi(10)}
      [] tipo = "MEDIA" -> {Centi(9) + 50}
      [] tipo = "RECUPERACAO" -> {0, Centi(6), Centi(8)}
      [] tipo = "RECUPERACAO FINAL" -> {Centi(10)}

Rows == UNION {[comp : Range(Componentes), tipo : {t}, nota : NotasOf(t)] :
                 t \in Range(desired_order)}

\* Series.unique(): the values in order of first appearance
RECURSIVE unique(_)
unique(s) ==
    IF s = <<>> THEN <<>>
    ELSE LET u == unique(SubSeq(s, 1, Len(s) - 1))
         IN  IF s[Len(s)] \in Range(u) THEN u ELSE Append(u, s[Len(s)])

componente_col(rows) == [i \in 1..Len(rows) |-> rows[i].comp]
tipo_col(rows) == [i \in 1..Len(rows) |-> rows[i].tipo]

\* resultado[resultado['Tipo de Avaliacao'] == tipo]
filter_tipo(rows, tipo) == SelectSeq(rows, LAMBDA r : r.tipo = tipo)

\* rows[rows['Componente Curricular'] == comp]
filter_comp(rows, comp) == SelectSeq(rows, LAMBDA r : r.comp = comp)

\* mutant of first_nota: the last matching row instead of the first (iloc[-1])
last_nota(rows, comp) ==
    IF filter_comp(rows, comp) # <<>>
    THEN filter_comp(rows, comp)[Len(filter_comp(rows, comp))].nota ELSE 0

\* rows[...]['Nota'].iloc[0] if not rows[...].empty else 0.0
first_nota(rows, comp) ==
    IF filter_comp(rows, comp) # <<>> THEN filter_comp(rows, comp)[1].nota ELSE 0

\* the body of calculate_media's loop for one subject
media_of(mensal_rows, bimestral_rows, comp) ==
    LET mensal    == first_nota(mensal_rows, comp)
        bimestral == first_nota(bimestral_rows, comp)
    IN  IF mensal > 0 \/ bimestral > 0 THEN (mensal + bimestral) \div 2 ELSE 0

\* calculate_media(resultado): the dict as its items in insertion order
calculate_media(rows) ==
    LET mensal_rows    == filter_tipo(rows, "MENSAL")
        bimestral_rows == filter_tipo(rows, "BIMESTRAL")
        comps          == unique(componente_col(rows))
    IN  [i \in 1..Len(comps) |->
            [comp |-> comps[i], media |-> media_of(mensal_rows, bimestral_rows, comps[i])]]

\* medias.get(comp, default)
get(d, comp, default) ==
    IF \E i \in 1..Len(d) : d[i].comp = comp
    THEN d[CHOOSE i \in 1..Len(d) : d[i].comp = comp].media
    ELSE default

\* mutant of needs_recuperacao: media <= 8
needs_recuperacao_le(media) == media <= Centi(8)

\* the test of check_recuperacao and check_recuperacao_final on an average
needs_recuperacao(media) == media < Centi(8)

\* check_recuperacao(medias): one entry "comp (Media: m)" per listed subject
check_recuperacao(d) == SelectSeq(d, LAMBDA it : needs_recuperacao(it.media))

\* mutant of status_of: nota_rec > 8
status_of_gt(nota_rec) == IF nota_rec > Centi(8) THEN "Aprovado" ELSE "Reprovado"

\* "Aprovado" if nota_rec >= 8 else "Reprovado"
status_of(nota_rec) == IF nota_rec >= Centi(8) THEN "Aprovado" ELSE "Reprovado"

\* mutant of check_recuperacao_final: every subject of medias is evaluated,
\* whatever its average
check_recuperacao_final_all(rows, d) ==
    [i \in 1..Len(d) |->
        [comp |-> d[i].comp,
         nota_rec |-> first_nota(filter_tipo(rows, "RECUPERACAO"), d[i].comp),
         status |-> IF first_nota(filter_tipo(rows, "RECUPERACAO"), d[i].comp) >= Centi(8)
                    THEN "Aprovado" ELSE "Reprovado"]]

\* check_recuperacao_final(resultado, medias): one entry
\* "comp (Nota de Recuperacao: n - status)" per subject with average < 8
check_recuperacao_final(rows, d) ==
    LET recuperacao_rows        == filter_tipo(rows, "RECUPERACAO")
        componentes_recuperacao == SelectSeq(d, LAMBDA it : needs_recuperacao(it.media))
    IN  [i \in 1..Len(componentes_recuperacao) |->
            LET comp     == componentes_recuperacao[i].comp
                nota_rec == first_nota(recuperacao_rows, comp)
            IN  [comp |-> comp, nota_rec |-> nota_rec, status |-> status_of(nota_rec)]]

\* [t for t in desired_order if t in available_types]
ordered_types(rows) ==
    SelectSeq(desired_order, LAMBDA t : t \in Range(unique(tipo_col(rows))))

\* the rename of the category columns
rename(t) ==
    CASE t = "MENSAL" -> "Men" [] t = "BIMESTRAL" -> "Bim" [] t = "MEDIA" -> "Med"
      [] t = "RECUPERACAO" -> "Rec" [] t = "RECUPERACAO FINAL" -> "Rec Final"

\* a cell of pivot_table(..., aggfunc='first'): <<>> is NaN
pivot_cell(rows, comp, tipo) ==
    LET rs == filter_comp(filter_tipo(rows, tipo), comp)
    IN  IF rs = <<>> THEN <<>> ELSE <<rs[1].nota>>

\* the index of pivot_table: the subjects present, sorted
pivot_index(rows) == SelectSeq(Componentes, LAMBDA c : c \in Range(componente_col(rows)))

\* the columns after boletim['Med'] = [...]: assigning to a column that exists
\* keeps its place, assigning to a new column appends it
columns_with_med(cols) == IF "Med" \in Range(cols) THEN cols ELSE Append(cols, "Med")

\* mutant of cell_of: a Med cell the pivot filled from a MEDIA row is kept
cell_of_literal(rows, d, comp, tipo) ==
    IF rename(tipo) = "Med" /\ pivot_cell(rows, comp, tipo) = <<>>
    THEN <<get(d, comp, 0)>> ELSE pivot_cell(rows, comp, tipo)

\* the cell of column col after boletim['Med'] = [medias.get(comp, 0.0) ...]
cell_of(rows, d, comp, tipo) ==
    IF rename(tipo) = "Med" THEN <<get(d, comp, 0)>> ELSE pivot_cell(rows, comp, tipo)

\* the table of display_boletim, without its leading 'Componente Curricular' column
boletim_of(rows, d) ==
    LET types == ordered_types(rows)
        cols  == columns_with_med([i \in 1..Len(types) |-> rename(types[i])])
        index == pivot_index(rows)
    IN  [columns |-> cols,
         index   |-> index,
         cell    |-> [comp \in Range(index) |->
                        [col \in Range(cols) |->
                            cell_of(rows, d, comp,
                                    CHOOSE t \in Range(desired_order) : rename(t) = col)]]]

\* a record set handed to display_boletim is never empty (line 256)
InitBoletim ==
    /\ resultado \in UNION {[1..k -> Rows] : k \in 1..MaxRows}
    /\ medias = <<>>
    /\ boletim = [columns |-> <<>>, index |-> <<>>, cell |-> <<>>]
    /\ recuperacao_needed = <<>>
    /\ recuperacao_resultados = <<>>
    /\ pcB = "loaded"
    /\ IdleN
    /\ IdleL
    /\ IdleC

\* display_boletim(resultado)
DisplayBoletim ==
    /\ pcB = "loaded"
    /\ medias' = calculate_media(resultado)
    /\ boletim' = boletim_of(resultado, calculate_media(resultado))
    /\ recuperacao_needed' = check_recuperacao(calculate_media(resultado))
    /\ recuperacao_resultados' = check_recuperacao_final(resultado, calculate_media(resultado))
    /\ pcB' = "displayed"
    /\ UNCHANGED resultado
    /\ UNCHANGED <<varsN, varsL, varsC>>

NextBoletim == DisplayBoletim

SpecBoletim == InitBoletim /\ [][NextBoletim]_vars

-----------------------------------------------------------------------------
(* The aggregation and recovery rules as the specification words them      *)
(* (sections 4.2 to 4.4), written over row positions                       *)

Min(S) == CHOOSE x \in S : \A y \in S : x <= y

\* positions of the rows of a subject and category
RowsAt(rows, comp, tipo) ==
    {i \in 1..Len(rows) : rows[i].comp = comp /\ rows[i].tipo = tipo}

\* score of the first row of a subject and category in source order, 0.0 if none
FirstScore(rows, comp, tipo) ==
    IF RowsAt(rows, comp, tipo) = {} THEN 0 ELSE rows[Min(RowsAt(rows, comp, tipo))].nota

\* twice the average (m + b) / 2
TwiceAverage(rows, comp) ==
    FirstScore(rows, comp, "MENSAL") + FirstScore(rows, comp, "BIMESTRAL")

Subjects(rows) == {rows[i].comp : i \in 1..Len(rows)}

\* the record set with only the first MENSAL and the first BIMESTRAL row of
\* every subject kept
OnlyFirstMonthlyBimonthly(rows) ==
    LET keep == {i \in 1..Len(rows) :
                    /\ rows[i].tipo \in {"MENSAL", "BIMESTRAL"}
                    /\ i = Min(RowsAt(rows, rows[i].comp, rows[i].tipo))}
        F[i \in 0..Len(rows)] ==
            IF i = 0 THEN <<>>
            ELSE IF i \in keep THEN Append(F[i - 1], rows[i]) ELSE F[i - 1]
    IN  F[Len(rows)]

IsSubsequence(s, of) ==
    \E f \in [1..Len(s) -> 1..Len(of)] :
        /\ \A i \in 1..Len(s) : of[f[i]] = s[i]
        /\ \A i, j \in 1..Len(s) : i < j => f[i] < f[j]

Displayed == pcB = "displayed"

-----------------------------------------------------------------------------
(* Claims about the report card *)

\* C4: calculate_media returns, for every distinct subject of the record set
\* (each exactly once), the average (m + b) / 2 of the first MENSAL score m
\* and the first BIMESTRAL score b, 0.0 standing for a missing row; rows of
\* other categories and later duplicate rows do not change it.
C4_Average ==
    Displayed =>
        /\ {medias[i].comp : i \in 1..Len(medias)} = Subjects(resultado)
        /\ \A i, j \in 1..Len(medias) : medias[i].comp = medias[j].comp => i = j
        /\ \A i \in 1..Len(medias) :
              /\ 2 * medias[i].media = TwiceAverage(resultado, medias[i].comp)
              /\ (TwiceAverage(resultado, medias[i].comp) = 0 => medias[i].media = 0)
              /\ medias[i].media =
                    get(calculate_media(OnlyFirstMonthlyBimonthly(resultado)),
                        medias[i].comp, 0)

\* C4 witness: a subject with two MENSAL rows of different scores, a
\* BIMESTRAL row and a row of another category, averaged from the first rows
C4_Witness ==
    /\ Displayed
    /\ \E c \in Subjects(resultado) :
          /\ Cardinality(RowsAt(resultado, c, "MENSAL")) = 2
          /\ \E i, j \in RowsAt(resultado, c, "MENSAL") :
                i < j /\ resultado[i].nota # resultado[j].nota
          /\ get(medias, c, 0) > 0
    /\ \E i \in 1..Len(resultado) : resultado[i].tipo \notin {"MENSAL", "BIMESTRAL"}

\* C5: check_recuperacao lists a subject (with its average) if and only if
\* its average is strictly below 8.0.
C5_NeedsRecovery ==
    Displayed =>
        /\ \A c \in Subjects(resultado) :
              (\E i \in 1..Len(recuperacao_needed) : recuperacao_needed[i].comp = c)
                  <=> TwiceAverage(resultado, c) < 2 * Centi(8)
        /\ \A i \in 1..Len(recuperacao_needed) :
              /\ recuperacao_needed[i].comp \in Subjects(resultado)
              /\ 2 * recuperacao_needed[i].media
                    = TwiceAverage(resultado, recuperacao_needed[i].comp)

\* C5 witness: one subject with MENSAL 6.0 and BIMESTRAL 10.0 (average 8.0)
\* not listed, another with no MENSAL and no BIMESTRAL row listed
C5_Witness ==
    /\ Displayed
    /\ \E c, d \in Subjects(resultado) :
          /\ FirstScore(resultado, c, "MENSAL") = Centi(6)
          /\ FirstScore(resultado, c, "BIMESTRAL") = Centi(10)
          /\ \A i \in 1..Len(recuperacao_needed) : recuperacao_needed[i].comp # c
          /\ RowsAt(resultado, d, "MENSAL") \cup RowsAt(resultado, d, "BIMESTRAL") = {}
          /\ \E i \in 1..Len(recuperacao_needed) : recuperacao_needed[i].comp = d

\* C6: for every subject with average below 8.0 check_recuperacao_final
\* reports the score of the subject's first RECUPERACAO row (0.0 if none),
\* Aprovado when that score is >= 8.0 and Reprovado otherwise; RECUPERACAO
\* FINAL rows play no part.
C6_RecoveryOutcome ==
    Displayed =>
        \A c \in Subjects(resultado) :
            TwiceAverage(resultado, c) < 2 * Centi(8) =>
                \E i \in 1..Len(recuperacao_resultados) :
                    LET e == recuperacao_resultados[i]
                    IN  /\ e.comp = c
                        /\ e.nota_rec = FirstScore(resultado, c, "RECUPERACAO")
                        /\ e.status = "Aprovado" <=> e.nota_rec >= Centi(8)
                        /\ e.status = "Reprovado" <=> e.nota_rec < Centi(8)

\* C6 witness: a subject below 8.0 whose first RECUPERACAO row carries exactly
\* 8.0 is reported Aprovado, and a subject below 8.0 with a RECUPERACAO FINAL
\* row and no RECUPERACAO row is reported Reprovado with 0.0
C6_Witness ==
    /\ Displayed
    /\ \E i, j \in 1..Len(recuperacao_resultados) :
          /\ recuperacao_resultados[i].nota_rec = Centi(8)
          /\ recuperacao_resultados[i].status = "Aprovado"
          /\ recuperacao_resultados[j].nota_rec = 0
          /\ recuperacao_resultados[j].status = "Reprovado"
          /\ RowsAt(resultado, recuperacao_resultados[j].comp, "RECUPERACAO FINAL") # {}
          /\ RowsAt(resultado, recuperacao_resultados[j].comp, "RECUPERACAO") = {}

\* C7: the recovery-results list holds no entry for a subject whose average is
\* >= 8.0 and exactly one entry for each subject whose average is < 8.0.
C7_OnlyBelowThreshold ==
    Displayed =>
        \A c \in Range(Componentes) :
            Cardinality({i \in 1..Len(recuperacao_resultados) :
                            recuperacao_resultados[i].comp = c})
              = IF c \in Subjects(resultado) /\ TwiceAverage(resultado, c) < 2 * Centi(8)
                THEN 1 ELSE 0

\* C7 witness: a subject with average >= 8.0 that has a RECUPERACAO row
C7_Witness ==
    /\ Displayed
    /\ \E c \in Subjects(resultado) :
          /\ TwiceAverage(resultado, c) >= 2 * Centi(8)
          /\ RowsAt(resultado, c, "RECUPERACAO") # {}

\* C8: the category columns of the report table are, in their order, a
\* subsequence of Men, Bim, Med, Rec, Rec Final.
C8_ColumnOrder ==
    Displayed =>
        IsSubsequence(boletim.columns, <<"Men", "Bim", "Med", "Rec", "Rec Final">>)

\* the column order is kept whenever the record set has a MEDIA row
ColumnOrderWithMediaRow ==
    (Displayed /\ \E i \in 1..Len(resultado) : resultado[i].tipo = "MEDIA")
        => IsSubsequence(boletim.columns, <<"Men", "Bim", "Med", "Rec", "Rec Final">>)

\* without a MEDIA row the Med column is the last one
MedLastWithoutMediaRow ==
    (Displayed /\ \A i \in 1..Len(resultado) : resultado[i].tipo # "MEDIA")
        => boletim.columns[Len(boletim.columns)] = "Med"

\* C9: the Med cell of every subject of the report table equals the average
\* calculate_media computes for that subject, whatever a literal MEDIA row
\* carries.
C9_MedCell ==
    Displayed =>
        /\ Range(boletim.index) = Subjects(resultado)
        /\ "Med" \in Range(boletim.columns)
        /\ \A c \in Range(boletim.index) :
              /\ Len(boletim.cell[c]["Med"]) = 1
              /\ 2 * boletim.cell[c]["Med"][1] = TwiceAverage(resultado, c)
              /\ boletim.cell[c]["Med"][1] = get(medias, c, 0)

\* C9 witness: a subject with a literal MEDIA row whose score differs from the
\* computed average shown in its Med cell
C9_Witness ==
    /\ Displayed
    /\ \E c \in Subjects(resultado) :
          /\ RowsAt(resultado, c, "MEDIA") # {}
          /\ RowsAt(resultado, c, "MENSAL") # {}
          /\ boletim.cell[c]["Med"] # <<FirstScore(resultado, c, "MEDIA")>>

-----------------------------------------------------------------------------
(* lancamentoNotas.py: the grade-entry view                                *)
(*                                                                         *)
(* A worksheet row is [matricula, serie, comp, bimestre, tipo, nota,       *)
(* mat_prof] with nota the cell's text; the columns 'Nome do Aluno',       *)
(* 'Turno' and 'Professor' are copied through unread and left out.  The    *)
(* students of a class are listed in the order of their IDs.  Periods are  *)
(* written "1o", "2o", "3o" for the options 1º, 2º, 3º.                    *)

\* str.upper() on the identifiers and option texts used here
upper(s) == CASE s = "p1" -> "P1" [] s = "Final" -> "FINAL" [] OTHER -> s

Pow10(n) == IF n = 0 THEN 1 ELSE IF n = 1 THEN 10 ELSE 100

\* a float with at most two fraction digits in hundredths
to_centi(x) == x.m * Pow10(2 - x.e)

\* f"{nota_valor:.2f}"
format_2f(n) ==
    digits_of(n \div 100) \o <<".", DigitChar((n % 100) \div 10), DigitChar(n % 10)>>

\* a cell as sheet.get_all_records() hands it over: text that reads as a
\* number arrives as a number, anything else as the text
numericise(text) == IF float_parses(text) THEN Number(float(text)) ELSE Text(text)

\* the worksheet before the session: teacher P1 has entered A1's MENSAL score
\* of the first period in class 6A and left A2's blank; teacher P2 has class 7B
InitialSheet ==
    << [matricula |-> "A1", serie |-> "6A", comp |-> "MAT", bimestre |-> "1o",
        tipo |-> "MENSAL", nota |-> <<"7", ".", "5", "0">>, mat_prof |-> "P1"],
       [matricula |-> "A2", serie |-> "6A", comp |-> "MAT", bimestre |-> "1o",
        tipo |-> "MENSAL", nota |-> <<>>, mat_prof |-> "P1"],
       [matricula |-> "B1", serie |-> "7B", comp |-> "CIE", bimestre |-> "1o",
        tipo |-> "MENSAL", nota |-> <<"9", ".", "0", "0">>, mat_prof |-> "P2"] >>

\* worksheet Controle_Liberacao after load_data: the window of each period as
\* day numbers; the dates of "3o" do not parse with %d/%m/%Y
df_periodo ==
    << [bimestre |-> "1o", parses |-> TRUE, inicio |-> 10, fim |-> 20],
       [bimestre |-> "2o", parses |-> TRUE, inicio |-> 30, fim |-> 40],
       [bimestre |-> "3o", parses |-> FALSE, inicio |-> 0, fim |-> 0] >>

\* the days tried for datetime.today(): inside the window of "1o", outside every window
Days == {15, 25}

\* the body of load_data for WORKSHEET_NOTAS (lines 84-98): text columns
\* stripped and upper-cased, Nota cleaned, row_index = index + 2
read_sheet(rows) ==
    [i \in 1..Len(rows) |->
        [matricula |-> upper(rows[i].matricula),
         serie     |-> upper(rows[i].serie),
         comp      |-> upper(rows[i].comp),
         bimestre  |-> upper(rows[i].bimestre),
         tipo      |-> upper(rows[i].tipo),
         mat_prof  |-> upper(rows[i].mat_prof),
         nota      |-> to_centi(lancamento_clean_nota_value(numericise(rows[i].nota)).num),
         row_index |-> i + 1]]

\* the cache key of load_data: st.cache_data leaves a parameter whose name
\* starts with an underscore (_cache_version) out of the key, so an entry is
\* found whenever one is stored for the worksheet name
cache_hit(c, version) == c.valid

\* load_data(WORKSHEET_NOTAS, _cache_version=version): the value returned
load_data(c, version, rows) == IF cache_hit(c, version) THEN c.data ELSE read_sheet(rows)

\* the cache after that call
cache_after(c, version, rows) ==
    IF cache_hit(c, version) THEN c ELSE [valid |-> TRUE, data |-> read_sheet(rows)]

\* validate_period(bimestre, df_periodo, today)
validate_period(bimestre, periodos, hoje) ==
    LET periodo_ok == SelectSeq(periodos, LAMBDA r : r.bimestre = upper(bimestre))
    IN  IF periodo_ok = <<>> THEN FALSE
        ELSE IF ~periodo_ok[1].parses THEN FALSE
        ELSE periodo_ok[1].inicio <= hoje /\ hoje <= periodo_ok[1].fim

\* validate_professor(mat_prof, df)
validate_professor(mat, d) == \E i \in 1..Len(d) : d[i].mat_prof = upper(mat)

\* series_disponiveis (lines 195-196)
series_disponiveis(d, mat) ==
    unique([i \in 1..Len(SelectSeq(d, LAMBDA r : r.mat_prof = upper(mat))) |->
               SelectSeq(d, LAMBDA r : r.mat_prof = upper(mat))[i].serie])

\* componentes (lines 203-204): the typed ID is compared without upper()
componentes(d, mat, serie) ==
    LET rs == SelectSeq(d, LAMBDA r : r.mat_prof = mat /\ r.serie = upper(serie))
    IN  unique([i \in 1..Len(rs) |-> rs[i].comp])

\* alunos_serie (lines 228-229): the student IDs of the class
alunos_serie(d, serie) ==
    LET rs == SelectSeq(d, LAMBDA r : r.serie = upper(serie))
    IN  unique([i \in 1..Len(rs) |-> rs[i].matricula])

BimestreOptions == {"1o", "2o", "3o", "Final"}
TipoOptions == {"MENSAL", "BIMESTRAL"}
NotaInputs == {0, Centi(7) + 50}

\* df[cond] (lines 293-299)
existe(d, f, matricula) ==
    SelectSeq(d, LAMBDA r : /\ r.matricula = upper(matricula)
                            /\ r.serie = upper(f.serie)
                            /\ r.comp = upper(f.componente)
                            /\ r.bimestre = upper(f.bimestre)
                            /\ r.tipo = upper(f.tipo))

\* nota_existente (line 300)
nota_existente(d, f, matricula) ==
    IF existe(d, f, matricula) # <<>> THEN existe(d, f, matricula)[1].nota ELSE 0

\* mutant of outcome: an existing row is updated whatever the checkbox says
outcome_unconfirmed(d, f, matricula) ==
    LET nota_valor == f.notas[matricula]
    IN  IF nota_valor = nota_existente(d, f, matricula)
           \/ (nota_valor = 0 /\ nota_existente(d, f, matricula) = 0)
        THEN "continue"
        ELSE IF existe(d, f, matricula) # <<>> THEN "batch_update" ELSE "registro"

\* what the body of the submit loop does for one student (lines 303-328)
outcome(d, f, matricula) ==
    LET nota_valor == f.notas[matricula]
    IN  IF nota_valor = nota_existente(d, f, matricula)
           \/ (nota_valor = 0 /\ nota_existente(d, f, matricula) = 0)
        THEN "continue"
        ELSE IF existe(d, f, matricula) # <<>>
        THEN (IF f.sobrescrever THEN "batch_update" ELSE "erro")
        ELSE "registro"

\* nova_linha (lines 306-309)
nova_linha(f, matricula, mat) ==
    [matricula |-> matricula, serie |-> f.serie, comp |-> f.componente,
     bimestre |-> f.bimestre, tipo |-> f.tipo,
     nota |-> format_2f(f.notas[matricula]), mat_prof |-> mat]

\* the outcome of every student of the form, in the order of the loop
outcomes(d, f, alunos) == [k \in 1..Len(alunos) |-> outcome(d, f, alunos[k])]

\* batch_updates (lines 315-319): row_index of the first matching snapshot row
\* and the new text of its Nota cell
batch_updates_of(d, f, alunos, oc) ==
    LET ks == SelectSeq([k \in 1..Len(alunos) |-> k], LAMBDA k : oc[k] = "batch_update")
    IN  [i \in 1..Len(ks) |->
            [row_index |-> existe(d, f, alunos[ks[i]])[1].row_index,
             nota      |-> format_2f(f.notas[alunos[ks[i]]])]]

\* sheet_notas.batch_update(batch_updates): row_index counts the header row
batch_update(rows, updates) ==
    [i \in 1..Len(rows) |->
        IF \E u \in 1..Len(updates) : updates[u].row_index = i + 1
        THEN [rows[i] EXCEPT !.nota =
                updates[CHOOSE u \in 1..Len(updates) : updates[u].row_index = i + 1].nota]
        ELSE rows[i]]

\* registros (line 328): the new rows, in the order of the students
registros_of(f, alunos, oc, mat) ==
    LET ks == SelectSeq([k \in 1..Len(alunos) |-> k], LAMBDA k : oc[k] = "registro")
    IN  [i \in 1..Len(ks) |-> nova_linha(f, alunos[ks[i]], mat)]

\* sheet_notas.append_rows(registros)
append_rows(rows, novos) == rows \o novos

\* the students of one outcome
with_outcome(alunos, oc, o) == {alunos[k] : k \in {j \in 1..Len(alunos) : oc[j] = o}}

\* mutant of gate: the period is not validated
gate_any_period(d, mat, serie, componente, bimestre, tipo, hoje) ==
    IF series_disponiveis(d, mat) = <<>> THEN "stop: nenhuma serie"
    ELSE IF serie = "" \/ componente = "" \/ bimestre = "" \/ tipo = ""
    THEN "stop: selecione os parametros"
    ELSE IF alunos_serie(d, serie) = <<>> THEN "stop: nenhum aluno"
    ELSE "form"

\* which st.stop() gate of lines 197-233 ends a page run with these selections,
\* "form" when the entry form is reached
gate(d, mat, serie, componente, bimestre, tipo, hoje) ==
    IF series_disponiveis(d, mat) = <<>> THEN "stop: nenhuma serie"
    ELSE IF serie = "" \/ componente = "" \/ bimestre = "" \/ tipo = ""
    THEN "stop: selecione os parametros"
    ELSE IF ~validate_period(bimestre, df_periodo, hoje) THEN "stop: periodo"
    ELSE IF alunos_serie(d, serie) = <<>> THEN "stop: nenhum aluno"
    ELSE "form"

\* the session after the first page run (lines 142-150)
InitLanc ==
    /\ sheet = InitialSheet
    /\ cache = [valid |-> TRUE, data |-> read_sheet(InitialSheet)]
    /\ df = read_sheet(InitialSheet)
    /\ cache_version = 0
    /\ prof_autenticado = FALSE
    /\ nome_prof = ""
    /\ mat_prof = ""
    /\ form = NoForm
    /\ run = NoRun
    /\ today \in Days
    /\ pcL = "session"
    /\ IdleN
    /\ IdleB
    /\ IdleC

\* a page run with auth_form submitted (lines 172-188)
RunAuth ==
    /\ pcL = "session"
    /\ ~prof_autenticado
    /\ \E nome \in {"", "ANA"}, mat \in {"", "P1", "p1", "X9"} :
          IF nome = "" \/ mat = ""
          THEN /\ run' = [NoRun EXCEPT !.kind = "auth: preencha nome e matricula"]
               /\ UNCHANGED <<prof_autenticado, nome_prof, mat_prof>>
          ELSE IF ~validate_professor(mat, df)
          THEN /\ run' = [NoRun EXCEPT !.kind = "auth: matricula invalida"]
               /\ UNCHANGED <<prof_autenticado, nome_prof, mat_prof>>
          ELSE /\ prof_autenticado' = TRUE
               /\ nome_prof' = nome
               /\ mat_prof' = mat
               /\ run' = [NoRun EXCEPT !.kind = "auth: sucesso"]
    /\ UNCHANGED <<sheet, cache, df, cache_version, form, today, pcL>>
    /\ UNCHANGED <<varsN, varsB, varsC>>

\* a page run with Deslogar pressed (lines 132-138, 167-169)
RunLogout ==
    /\ pcL = "session"
    /\ prof_autenticado
    /\ prof_autenticado' = FALSE
    /\ nome_prof' = ""
    /\ mat_prof' = ""
    /\ form' = NoForm
    /\ run' = [NoRun EXCEPT !.kind = "logout"]
    /\ UNCHANGED <<sheet, cache, df, cache_version, today, pcL>>
    /\ UNCHANGED <<varsN, varsB, varsC>>

\* a page run with Salvar Notas pressed (lines 190-372): the selections pass
\* every st.stop() gate, the loop decides each student, the worksheet is
\* written and, when something was written, the snapshot is loaded again
RunSubmit ==
    /\ pcL = "session"
    /\ prof_autenticado
    /\ series_disponiveis(df, mat_prof) # <<>>
    /\ \E serie \in Range(series_disponiveis(df, mat_prof)) :
       \E componente \in Range(componentes(df, mat_prof, serie)) :
       \E bimestre \in BimestreOptions, tipo \in TipoOptions, sobrescrever \in BOOLEAN :
          /\ gate(df, mat_prof, serie, componente, bimestre, tipo, today) = "form"
          /\ \E notas \in [Range(alunos_serie(df, serie)) -> NotaInputs] :
                LET f       == [serie |-> serie, componente |-> componente,
                                bimestre |-> bimestre, tipo |-> tipo,
                                notas |-> notas, sobrescrever |-> sobrescrever]
                    alunos  == alunos_serie(df, serie)
                    oc      == outcomes(df, f, alunos)
                    updates == batch_updates_of(df, f, alunos, oc)
                    novos   == registros_of(f, alunos, oc, mat_prof)
                    escrito == append_rows(batch_update(sheet, updates), novos)
                    changed == updates # <<>> \/ novos # <<>>
                IN  /\ Len(escrito) <= MaxSheetRows
                    /\ changed => cache_version < MaxVersion
                    /\ form' = f
                    /\ sheet' = escrito
                    /\ run' = [kind        |-> "submit",
                               erros       |-> with_outcome(alunos, oc, "erro"),
                               atualizados |-> with_outcome(alunos, oc, "batch_update"),
                               registros   |-> with_outcome(alunos, oc, "registro")]
                    /\ IF changed
                       THEN /\ cache_version' = cache_version + 1
                            /\ df' = load_data(cache, cache_version + 1, escrito)
                            /\ cache' = cache_after(cache, cache_version + 1, escrito)
                       ELSE UNCHANGED <<cache_version, df, cache>>
    /\ UNCHANGED <<prof_autenticado, nome_prof, mat_prof, today, pcL>>
    /\ UNCHANGED <<varsN, varsB, varsC>>

\* the ttl of st.cache_data (300 s) runs out
CacheExpire ==
    /\ pcL = "session"
    /\ cache.valid
    /\ cache' = [valid |-> FALSE, data |-> <<>>]
    /\ UNCHANGED <<sheet, df, cache_version, prof_autenticado, nome_prof, mat_prof,
                   form, run, today, pcL>>
    /\ UNCHANGED <<varsN, varsB, varsC>>

\* a page run of the authenticated branch that a gate stops (lines 190-233):
\* the selections are kept in the widgets, nothing else happens.  The gates
\* test the category only for being selected, so one category is tried.
RunStopped ==
    /\ pcL = "session"
    /\ prof_autenticado
    /\ \E serie \in {""} \cup Range(series_disponiveis(df, mat_prof)) :
       \E componente \in {""} \cup (IF serie = "" THEN {}
                                     ELSE Range(componentes(df, mat_prof, serie))) :
       \E bimestre \in BimestreOptions, tipo \in {"MENSAL"} :
          /\ gate(df, mat_prof, serie, componente, bimestre, tipo, today) # "form"
          /\ form' = [NoForm EXCEPT !.serie = serie, !.componente = componente,
                                    !.bimestre = bimestre, !.tipo = tipo]
          /\ run' = [NoRun EXCEPT
                        !.kind = gate(df, mat_prof, serie, componente, bimestre, tipo, today)]
    /\ UNCHANGED <<sheet, cache, df, cache_version, prof_autenticado, nome_prof,
                   mat_prof, today, pcL>>
    /\ UNCHANGED <<varsN, varsB, varsC>>

\* datetime.today().date() moves on to a later day between page runs
NextDay ==
    /\ pcL = "session"
    /\ \E d \in Days : d > today /\ today' = d
    /\ UNCHANGED <<sheet, cache, df, cache_version, prof_autenticado, nome_prof,
                   mat_prof, form, run, pcL>>
    /\ UNCHANGED <<varsN, varsB, varsC>>

NextLanc == RunAuth \/ RunLogout \/ RunSubmit \/ RunStopped \/ CacheExpire \/ NextDay

SpecLanc == InitLanc /\ [][NextLanc]_vars

-----------------------------------------------------------------------------
(* Claims about the grade-entry view *)

\* the students the entry form of selection f lists
FormStudents(d, f) == {d[i].matricula : i \in {j \in 1..Len(d) : d[j].serie = upper(f.serie)}}

\* positions of the snapshot rows of a student for the form's class, subject,
\* period and category
SnapshotRows(d, f, a) ==
    {i \in 1..Len(d) : /\ d[i].matricula = a
                       /\ d[i].serie = upper(f.serie)
                       /\ d[i].comp = upper(f.componente)
                       /\ d[i].bimestre = upper(f.bimestre)
                       /\ d[i].tipo = upper(f.tipo)}

\* the prior score the snapshot holds, 0.0 when it holds none
PriorScore(d, f, a) ==
    IF SnapshotRows(d, f, a) = {} THEN 0 ELSE d[Min(SnapshotRows(d, f, a))].nota

\* a step of Salvar Notas (any other step leaves run or sets another kind)
SubmitStep ==
    /\ run'.kind = "submit"
    /\ form' # form \/ run' # run \/ sheet' # sheet \/ cache_version' # cache_version

\* no worksheet row of student a is changed or added by the step
NothingWritten(a) ==
    /\ Len(sheet') >= Len(sheet)
    /\ \A i \in 1..Len(sheet) : upper(sheet[i].matricula) = a => sheet'[i] = sheet[i]
    /\ \A i \in (Len(sheet) + 1)..Len(sheet') : upper(sheet'[i].matricula) # a

\* the worksheet row the snapshot row i was read from keeps its score
ScoreKept(i) == sheet'[df[i].row_index - 1].nota = sheet[df[i].row_index - 1].nota

\* C10 (as stated): in a Salvar Notas step, for every student of the form: an
\* entered 0.0 with no prior score (or a prior 0.0) writes nothing for the
\* student; a row existing in the snapshot for the key has its score replaced
\* only with Sobrescrever set, and with it unset the score is unchanged and
\* an error is reported for the student.
C10_SubmitSafety ==
    [][SubmitStep =>
         \A a \in FormStudents(df, form') :
            /\ (form'.notas[a] = 0 /\ PriorScore(df, form', a) = 0) => NothingWritten(a)
            /\ \A i \in SnapshotRows(df, form', a) :
                  /\ ~ScoreKept(i) => form'.sobrescrever
                  /\ ~form'.sobrescrever => (ScoreKept(i) /\ a \in run'.erros)
      ]_vars

\* C10 (amended): as stated, except that with Sobrescrever unset the error is
\* reported for the student exactly when the entered score differs from the
\* existing one; an entry equal to the existing score is skipped without a
\* message and without a write.
C10_SubmitSafetyAmended ==
    [][SubmitStep =>
         \A a \in FormStudents(df, form') :
            /\ (form'.notas[a] = 0 /\ PriorScore(df, form', a) = 0) => NothingWritten(a)
            /\ form'.notas[a] = PriorScore(df, form', a)
                  => (NothingWritten(a) /\ a \notin run'.erros)
            /\ \A i \in SnapshotRows(df, form', a) :
                  /\ ~ScoreKept(i) => form'.sobrescrever
                  /\ ~form'.sobrescrever =>
                        /\ ScoreKept(i)
                        /\ a \in run'.erros <=> form'.notas[a] # PriorScore(df, form', a)
            /\ a \in run'.erros => (SnapshotRows(df, form', a) # {} /\ ~form'.sobrescrever)
      ]_vars

\* C10 witness: a submission with Sobrescrever unset that wrote nothing, in
\* which one student with an existing score and a different entry got the
\* error and another with an entered 0.0 against a prior 0.0 was skipped
C10_Witness ==
    /\ run.kind = "submit"
    /\ ~form.sobrescrever
    /\ run.atualizados = {} /\ run.registros = {}
    /\ \E a, b \in FormStudents(df, form) :
          /\ SnapshotRows(df, form, a) # {}
          /\ form.notas[a] # PriorScore(df, form, a)
          /\ a \in run.erros
          /\ form.notas[b] = 0 /\ PriorScore(df, form, b) = 0
          /\ b \notin run.erros

\* a submission with Sobrescrever set replaced an existing score
OverwriteReached ==
    /\ run.kind = "submit"
    /\ form.sobrescrever
    /\ run.atualizados # {}

\* the store is written by the step: a row appended or a score replaced
StoreWritten == sheet' # sheet

\* the registered window of a period, empty for an unknown period
Window(bimestre) == {r \in Range(df_periodo) : r.bimestre = upper(bimestre)}

\* today's date lies inside the well-formed window registered for the period
InsideWindow(bimestre, hoje) ==
    \E r \in Window(bimestre) : r.parses /\ r.inicio <= hoje /\ hoje <= r.fim

\* the teacher ID of the session occurs in the Mat_Professor column
TeacherListed(rows, mat) == \E i \in 1..Len(rows) : upper(rows[i].mat_prof) = upper(mat)

\* C11: a page run writes the store (appends a row or replaces a score) only
\* when the session holds an authenticated teacher whose ID occurs in the
\* Mat_Professor column and today's date lies inside the window registered
\* for the selected period; a run with an unknown period, a date outside the
\* window or a malformed date writes nothing.
C11_WriteGate ==
    [][/\ StoreWritten =>
             /\ prof_autenticado /\ prof_autenticado'
             /\ mat_prof' = mat_prof
             /\ TeacherListed(sheet, mat_prof) /\ TeacherListed(df, mat_prof)
             /\ run'.kind = "submit"
             /\ InsideWindow(form'.bimestre, today)
             /\ today' = today
       /\ (run' # run /\ run'.kind = "stop: periodo") =>
             /\ ~InsideWindow(form'.bimestre, today)
             /\ ~StoreWritten
       /\ ((run' # run \/ form' # form) /\ form'.bimestre # ""
             /\ ~InsideWindow(form'.bimestre, today)) => ~StoreWritten
      ]_vars

\* C11 witness: an authenticated teacher listed in the store has appended a
\* row inside the open window of the selected period
C11_Witness ==
    /\ run.kind = "submit"
    /\ run.registros # {}
    /\ Len(sheet) > Len(InitialSheet)
    /\ prof_autenticado
    /\ TeacherListed(sheet, mat_prof)
    /\ \E hoje \in Days : hoje <= today /\ InsideWindow(form.bimestre, hoje)

\* runs stopped at the period gate: unknown period, date outside the window,
\* malformed date
UnknownPeriodStopped ==
    run.kind = "stop: periodo" /\ Window(form.bimestre) = {}

OutsideWindowStopped ==
    /\ run.kind = "stop: periodo"
    /\ \E r \in Window(form.bimestre) : r.parses /\ (today < r.inicio \/ r.fim < today)

MalformedDateStopped ==
    run.kind = "stop: periodo" /\ \E r \in Window(form.bimestre) : ~r.parses

\* the key of a worksheet row: student ID, class, subject, period, category
KeyOf(r) == <<upper(r.matricula), upper(r.serie), upper(r.comp), upper(r.bimestre),
              upper(r.tipo)>>

\* C13: the store holds at most one row per key (student ID, class, subject,
\* period, category) after any sequence of Salvar Notas submissions of a
\* teacher session that started from a store with at most one row per key.
C13_OneRowPerKey ==
    \A i, j \in 1..Len(sheet) : KeyOf(sheet[i]) = KeyOf(sheet[j]) => i = j

\* C13, second part: once a submission has appended a row for a key, the
\* session snapshot holds a row for that key
C13_SnapshotSeesAppended ==
    \A i \in 1..Len(sheet) : \E j \in 1..Len(df) : KeyOf(df[j]) = KeyOf(sheet[i])

\* the subjects of the rows carrying the teacher ID in the class
SubjectsOf(d, mat, serie) ==
    {d[i].comp : i \in {j \in 1..Len(d) : /\ upper(d[j].mat_prof) = upper(mat)
                                          /\ upper(d[j].serie) = upper(serie)}}

\* C14: an authenticated teacher is offered, for every class the series
\* filter offers, exactly the subjects of the rows carrying the teacher ID in
\* that class, whatever letter case was typed, and never an empty list.
C14_SubjectsOffered ==
    prof_autenticado =>
        \A serie \in Range(series_disponiveis(df, mat_prof)) :
            /\ Range(componentes(df, mat_prof, serie)) = SubjectsOf(df, mat_prof, serie)
            /\ componentes(df, mat_prof, serie) # <<>>

\* the teacher typed the ID in capitals: the subjects offered are the teacher's
SubjectsOfferedAsStored ==
    (prof_autenticado /\ mat_prof = upper(mat_prof)) =>
        \A serie \in Range(series_disponiveis(df, mat_prof)) :
            /\ Range(componentes(df, mat_prof, serie)) = SubjectsOf(df, mat_prof, serie)
            /\ componentes(df, mat_prof, serie) # <<>>

-----------------------------------------------------------------------------
(* consultaNotas.py: the consultation view                                  *)
(*                                                                          *)
(* A worksheet row is [serie, nome, matricula, bimestre, comp, tipo, nota]  *)
(* with matricula and nota the cells' texts.  The cells hold well-formed    *)
(* scores, so load_data returns.                                            *)

\* str.upper() on a text
upper_text(s) == [i \in 1..Len(s) |-> IF s[i] = "a" THEN "A" ELSE s[i]]

\* two worksheets: student ANA (A1) of class 6A with MENSAL and BIMESTRAL
\* scores in the first period, BIA (A2) in the same class, a second ANA (B1)
\* in class 7B with a score in the second period; the second worksheet also
\* holds a final-recovery row of A1 whose period cell reads "Final"
ConsultaSheet ==
    << [serie |-> "6A", nome |-> "ANA", matricula |-> <<"A", "1">>, bimestre |-> "1o",
        comp |-> "MATEMATICA", tipo |-> "MENSAL", nota |-> <<"6", ".", "0", "0">>],
       [serie |-> "6A", nome |-> "ANA", matricula |-> <<"A", "1">>, bimestre |-> "1o",
        comp |-> "MATEMATICA", tipo |-> "BIMESTRAL", nota |-> <<"1", "0">>],
       [serie |-> "6A", nome |-> "BIA", matricula |-> <<" ", "a", "8">>, bimestre |-> "1o",
        comp |-> "CIENCIAS", tipo |-> "MENSAL", nota |-> <<"6", ",", "0">>],
       [serie |-> "7B", nome |-> "ANA", matricula |-> <<"8", "1">>, bimestre |-> "2o",
        comp |-> "CIENCIAS", tipo |-> "MENSAL", nota |-> <<>>] >>

ConsultaSheetFinal ==
    Append(ConsultaSheet,
       [serie |-> "6A", nome |-> "ANA", matricula |-> <<"A", "1">>, bimestre |-> "Final",
        comp |-> "MATEMATICA", tipo |-> "RECUPERACAO FINAL", nota |-> <<"1", "0">>])

\* load_data(WORKSHEET_NOTAS) of consultaNotas.py (lines 62-79): the text
\* columns stripped and upper-cased, Nota cleaned
consulta_load_data(rows) ==
    [i \in 1..Len(rows) |->
        [serie     |-> upper(rows[i].serie),
         nome      |-> upper(rows[i].nome),
         matricula |-> upper_text(strip(rows[i].matricula)),
         bimestre  |-> upper(rows[i].bimestre),
         comp      |-> upper(rows[i].comp),
         tipo      |-> upper(rows[i].tipo),
         nota      |-> to_centi(consulta_clean_nota_value(numericise(rows[i].nota)).num)]]

\* series (line 222)
series(d) == {d[i].serie : i \in 1..Len(d)}

\* alunos_serie (lines 228-229): the (name, ID) pairs of the class
consulta_alunos_serie(d, serie) == SelectSeq(d, LAMBDA r : r.serie = serie)

\* nomes (line 230)
nomes(alunos) == {alunos[i].nome : i \in 1..Len(alunos)}

\* bimestres (lines 236-239): the periods of every row carrying the name,
\* followed by the option "Final"; "" while nothing is selected
bimestres(d, nome) ==
    {""} \cup {d[i].bimestre : i \in {j \in 1..Len(d) : d[j].nome = nome}} \cup {"Final"}

\* mutant of validate_matricula: the ID is looked up in every class
validate_matricula_any_class(d, nome, matricula, alunos) ==
    \E i \in 1..Len(d) :
        /\ upper(d[i].nome) = upper(nome)
        /\ strip(d[i].matricula) = strip(matricula)

\* validate_matricula(nome, matricula, alunos_serie); d is the whole table
validate_matricula(d, nome, matricula, alunos) ==
    \E i \in 1..Len(alunos) :
        /\ upper(alunos[i].nome) = upper(nome)
        /\ strip(alunos[i].matricula) = strip(matricula)

\* resultado (lines 250-255)
resultado_of(d, c) ==
    SelectSeq(d, LAMBDA r : /\ upper(r.nome) = upper(c.nome)
                            /\ strip(r.matricula) = strip(c.matricula)
                            /\ r.serie = c.serie
                            /\ r.bimestre = c.bimestre)

\* the columns of resultado that display_boletim reads
boletim_rows(rows) ==
    [i \in 1..Len(rows) |-> [comp |-> rows[i].comp, tipo |-> rows[i].tipo, nota |-> rows[i].nota]]

\* the texts typed into "Digite a matricula do aluno"
MatriculaInputs ==
    { <<>>, <<"A", "1">>, <<" ", "A", "1", " ">>, <<"a", "1">>, <<"A", "8">>,
      <<"8", "1">>, <<" ">> }

\* what the Consultar handler (lines 246-266) puts on the screen
consultar(d, c) ==
    IF c.matricula = <<>> THEN "erro: digite a matricula"
    ELSE IF validate_matricula(d, c.nome, c.matricula, consulta_alunos_serie(d, c.serie))
    THEN (IF resultado_of(d, c) # <<>> THEN "boletim" ELSE "warning: nenhuma nota lancada")
    ELSE "erro: matricula incorreta"

\* the first page run: the worksheet is loaded, nothing is selected
InitConsulta ==
    /\ planilha \in {ConsultaSheet, ConsultaSheetFinal}
    /\ consulta = NoConsulta
    /\ tela = "none"
    /\ consultado = FALSE
    /\ pcC = "page"
    /\ IdleN
    /\ IdleB
    /\ IdleL

\* a page run with class, student, period and ID entered and Consultar
\* pressed (lines 221-266); a report is drawn by display_boletim
Consultar ==
    /\ pcC = "page"
    /\ \E d \in {consulta_load_data(planilha)} :
       \E serie \in series(d) :
       \E nome \in nomes(consulta_alunos_serie(d, serie)) :
       \E bimestre \in bimestres(d, nome), matricula \in MatriculaInputs :
       \E c \in {[serie |-> serie, nome |-> nome, bimestre |-> bimestre,
                  matricula |-> matricula]} :
       \E rows \in {boletim_rows(resultado_of(d, c))} :
                  /\ consulta' = c
                  /\ tela' = consultar(d, c)
                  /\ IF consultar(d, c) = "boletim"
                     THEN /\ resultado' = rows
                          /\ medias' = calculate_media(rows)
                          /\ boletim' = boletim_of(rows, calculate_media(rows))
                          /\ recuperacao_needed' = check_recuperacao(calculate_media(rows))
                          /\ recuperacao_resultados' =
                                check_recuperacao_final(rows, calculate_media(rows))
                          /\ pcB' = "displayed"
                          /\ consultado' = TRUE
                     ELSE /\ resultado' = <<>>
                          /\ medias' = <<>>
                          /\ boletim' = [columns |-> <<>>, index |-> <<>>, cell |-> <<>>]
                          /\ recuperacao_needed' = <<>>
                          /\ recuperacao_resultados' = <<>>
                          /\ pcB' = "idle"
                          /\ UNCHANGED consultado
    /\ UNCHANGED <<planilha, pcC>>
    /\ UNCHANGED <<varsN, varsL>>

\* a page run with "Nova consulta" pressed (lines 214-219): the session keys
\* and with them the widget values are deleted
NovaConsulta ==
    /\ pcC = "page"
    /\ consultado
    /\ consulta' = NoConsulta
    /\ tela' = "none"
    /\ consultado' = FALSE
    /\ resultado' = <<>>
    /\ medias' = <<>>
    /\ boletim' = [columns |-> <<>>, index |-> <<>>, cell |-> <<>>]
    /\ recuperacao_needed' = <<>>
    /\ recuperacao_resultados' = <<>>
    /\ pcB' = "idle"
    /\ UNCHANGED <<planilha, pcC>>
    /\ UNCHANGED <<varsN, varsL>>

NextConsulta == Consultar \/ NovaConsulta

SpecConsulta == InitConsulta /\ [][NextConsulta]_vars

-----------------------------------------------------------------------------
(* Claims about the consultation view *)

\* the loaded rows of the selected class that carry the selected name and
\* the typed ID
MatchingRows(c) ==
    {r \in Range(consulta_load_data(planilha)) :
        /\ r.serie = c.serie
        /\ r.nome = c.nome
        /\ r.matricula = strip(c.matricula)}

\* the filtered record set: the matching rows of the selected period
RecordSet(c) == {r \in MatchingRows(c) : r.bimestre = c.bimestre}

Consulted == pcC = "page" /\ tela # "none"

ReportShown == pcB = "displayed"

\* C12: after Consultar a report card is displayed only when the typed ID
\* matches the selected name within the selected class and the filtered
\* record set is not empty; a missing or non-matching ID yields an error and
\* no report; a matching ID with an empty record set for the selected period
\* (the option "Final" included) yields the warning and no report.
C12_Consultar ==
    Consulted =>
        /\ tela \in {"boletim", "erro: digite a matricula", "erro: matricula incorreta",
                     "warning: nenhuma nota lancada"}
        /\ ReportShown <=> tela = "boletim"
        /\ ReportShown => (MatchingRows(consulta) # {} /\ RecordSet(consulta) # {})
        /\ ReportShown => Range(resultado) =
              {[comp |-> r.comp, tipo |-> r.tipo, nota |-> r.nota] : r \in RecordSet(consulta)}
        /\ MatchingRows(consulta) = {} =>
              /\ tela \in {"erro: digite a matricula", "erro: matricula incorreta"}
              /\ ~ReportShown
        /\ consulta.matricula = <<>> => tela = "erro: digite a matricula"
        /\ (MatchingRows(consulta) # {} /\ RecordSet(consulta) = {}) =>
              /\ tela = "warning: nenhuma nota lancada"
              /\ ~ReportShown

\* C12 witness: the option "Final" chosen with the matching ID typed between
\* blanks, while the worksheet holds a row of the student in a period that
\* loads as "FINAL": the warning is shown and no report
C12_Witness ==
    /\ Consulted
    /\ consulta.bimestre = "Final"
    /\ consulta.matricula = <<" ", "A", "1", " ">>
    /\ MatchingRows(consulta) # {}
    /\ \E r \in MatchingRows(consulta) : r.bimestre = "FINAL"
    /\ tela = "warning: nenhuma nota lancada"
    /\ ~ReportShown

\* a report was displayed for a matching ID
ReportReached ==
    Consulted /\ ReportShown /\ tela = "boletim" /\ Len(resultado) = 2

\* an ID of another class's student of the same name was refused
OtherClassRefused ==
    /\ Consulted
    /\ consulta.serie = "6A" /\ consulta.nome = "ANA" /\ consulta.matricula = <<"8", "1">>
    /\ tela = "erro: matricula incorreta"

=============================================================================
